---- MODULE Spec2Model ----
(***************************************************************************)
(* A model of pyeclib's driver layer, src/python/pyeclib/core.py:          *)
(*   ECPyECLibDriver   the driver wrapping the native engine pyeclib_c     *)
(*   ECNullDriver      the no-op driver                                    *)
(*   ECStripingDriver  the striping-only (RAID 0) driver                   *)
(*                                                                         *)
(* One caller holds at most one driver instance and calls one method at a  *)
(* time (the code is synchronous).  A method that calls the engine is one  *)
(* step per engine call: the engine is a black box whose answer (a value   *)
(* or a fault) is an input of the step.  Every engine call is appended to  *)
(* the log `engine`, over which the ordering properties are stated.        *)
(***************************************************************************)
EXTENDS Integers, Sequences, FiniteSets, TLC

VARIABLES
  self,      \* the caller's driver instance (NoDriver before construction)
  pc,        \* position of the running method, "idle" between calls
  op,        \* the method that runs, or ran last
  args,      \* the caller's argument objects, as the method may mutate them
  entry,     \* the value of the argument objects when the method was called
  locals,    \* local variables of the running method
  engine,    \* the pyeclib_c calls of this method, in order, with results
  outcome,   \* how the last method ended: a return value or a raised error
  encoded    \* the buffer whose encode() output is the argument of decode()

vars == <<self, pc, op, args, entry, locals, engine, outcome, encoded>>

---------------------------------------------------------------------------
(* Bounds of the model.                                                    *)

MaxK == 3          \* striping: k ranges over 1..MaxK
MaxLen == 4        \* striping: buffers of 0..MaxLen bytes
MaxTargets == 2    \* coded reconstruct: at most this many target indexes

---------------------------------------------------------------------------
(* Values.                                                                 *)

Alphabet == {"a", "b"}

\* Python's None.  Byte strings are sequences over Alphabet, lists of
\* fragments are sequences of those, so this value is none of them.
None == <<"None">>

\* All sequences over S of length 0..n.
SeqsUpTo(S, n) == UNION {[1..l -> S] : l \in 0..n}

Buffers == SeqsUpTo(Alphabet, MaxLen)

\* Fragments handed to the striping decode()/reconstruct() by a caller.
StripeFrags == {<<>>, <<"a">>, <<"b">>}
StripePayloads == SeqsUpTo(StripeFrags, MaxK + 1)

NoDriver == [cls |-> "none"]
NoLocals == [frame |-> "none"]
NoOutcome == [kind |-> "none", val |-> None]
Return(v) == [kind |-> "return", val |-> v]
Raise(e) == [kind |-> "raise", val |-> e]

---------------------------------------------------------------------------
(* Python semantics the methods rest on.                                   *)

\* `raise ECDriverError(...)`: core.py imports only pyeclib_c and math and
\* defines no ECDriverError, so evaluating the name raises NameError.
Raise_ECDriverError == Raise("NameError")

\* s[i:j] for a sequence s: a negative bound counts from the end, both are
\* clamped to 0..len(s), and an empty range gives the empty sequence.
PySlice(s, i, j) ==
  LET n == Len(s)
      Norm(x) == IF x < 0 THEN (IF x + n < 0 THEN 0 ELSE x + n)
                 ELSE (IF x > n THEN n ELSE x)
      lo == Norm(i)
      hi == Norm(j)
  IN IF lo >= hi THEN <<>> ELSE SubSeq(s, lo + 1, hi)

\* math.ceil(n / float(k)), k >= 1.
Ceil(n, k) == IF n % k = 0 THEN n \div k ELSE (n \div k) + 1

\* list.sort(): ascending, by insertion.
RECURSIVE Insert(_, _)
Insert(x, s) ==
  IF s = <<>> THEN <<x>>
  ELSE IF x <= Head(s) THEN <<x>> \o s
  ELSE <<Head(s)>> \o Insert(x, Tail(s))

\* A faulty variant of the sort below: the list is left in the caller's order.
ListSortSkipped(s) == s

RECURSIVE ListSort(_)
ListSort(s) == IF s = <<>> THEN <<>> ELSE Insert(Head(s), ListSort(Tail(s)))

\* ret_string = ''; for fragment in fragment_payloads: ret_string += fragment
RECURSIVE Concat(_)
Concat(frags) == IF frags = <<>> THEN <<>> ELSE Head(frags) \o Concat(Tail(frags))

---------------------------------------------------------------------------
(* ECStripingDriver                                                        *)

\* for i in range(self.k-1): fragments.append(bytes[offset:fragment_size]);
\*                           offset += fragment_size
RECURSIVE StripeLoop(_, _, _, _, _)
StripeLoop(bytes, fragment_size, todo, offset, fragments) ==
  IF todo = 0 THEN [offset |-> offset, fragments |-> fragments]
  ELSE StripeLoop(bytes, fragment_size, todo - 1, offset + fragment_size,
                  Append(fragments, PySlice(bytes, offset, fragment_size)))

\* The body of ECStripingDriver.encode where math.ceil gives an integer.
StripeFragments(bytes, k) ==
  LET fragment_size == Ceil(Len(bytes), k)
      last_fragment_size == Len(bytes) - (fragment_size * k - 1)
      loop == StripeLoop(bytes, fragment_size, k - 1, 0, <<>>)
  IN Append(loop.fragments, PySlice(bytes, loop.offset, last_fragment_size))

\* ECStripingDriver.encode.  math.ceil returns a float on Python 2 and an
\* int on Python 3; a float slice bound raises TypeError at the first slice
\* (there is always one: the last fragment's).
StripingEncodeOutcome(bytes, k, ceil_is_float) ==
  IF ceil_is_float THEN Raise("TypeError") ELSE Return(StripeFragments(bytes, k))

\* ECStripingDriver.decode.
StripingDecodeOutcome(fragment_payloads, k) ==
  IF Len(fragment_payloads) # k THEN Raise_ECDriverError
  ELSE Return(Concat(fragment_payloads))

\* ECStripingDriver.reconstruct.
StripingReconstructOutcome(available_fragment_payloads, k) ==
  IF Len(available_fragment_payloads) # k THEN Raise_ECDriverError
  ELSE Return(available_fragment_payloads)

\* A method that runs to its end in one step, and leaves its result with the
\* caller (pc = "done").
End(name, a, log, res) ==
  /\ op' = name
  /\ args' = a
  /\ entry' = a
  /\ outcome' = res
  /\ engine' = log
  /\ locals' = NoLocals
  /\ pc' = "done"

\* The same for a method that calls no engine.
Finish(name, a, res) == End(name, a, <<>>, res)

Striping_init ==
  /\ pc = "idle"
  /\ \E k \in 1..MaxK, m \in {0, 1} :
       /\ self' = IF m # 0 THEN NoDriver
                  ELSE [cls |-> "striping", k |-> k, m |-> m]
       /\ Finish("__init__", [cls |-> "striping", k |-> k, m |-> m],
                 IF m # 0 THEN Raise_ECDriverError ELSE Return(None))
       /\ encoded' = None

Striping_encode ==
  /\ pc = "idle"
  /\ self.cls = "striping"
  /\ \E bytes \in Buffers, ceil_is_float \in BOOLEAN :
       Finish("encode", [bytes |-> bytes],
              StripingEncodeOutcome(bytes, self.k, ceil_is_float))
  /\ encoded' = None
  /\ UNCHANGED self

\* decode() of what a caller supplies.
Striping_decode ==
  /\ pc = "idle"
  /\ self.cls = "striping"
  /\ \E fragment_payloads \in StripePayloads :
       Finish("decode", [fragment_payloads |-> fragment_payloads],
              StripingDecodeOutcome(fragment_payloads, self.k))
  /\ encoded' = None
  /\ UNCHANGED self

\* decode(encode(b)): decode() of the list the preceding encode() returned.
Striping_decode_encoded ==
  /\ pc = "done"
  /\ self.cls = "striping"
  /\ op = "encode"
  /\ outcome.kind = "return"
  /\ Finish("decode", [fragment_payloads |-> outcome.val],
            StripingDecodeOutcome(outcome.val, self.k))
  /\ encoded' = args.bytes
  /\ UNCHANGED self

Striping_reconstruct ==
  /\ pc = "idle"
  /\ self.cls = "striping"
  /\ \E available \in StripePayloads, missing \in {<<>>, <<0>>} :
       Finish("reconstruct",
              [fragment_payloads |-> available, indexes_to_reconstruct |-> missing],
              StripingReconstructOutcome(available, self.k))
  /\ encoded' = None
  /\ UNCHANGED self

Striping_fragments_needed ==
  /\ pc = "idle"
  /\ self.cls = "striping"
  /\ \E missing \in {<<>>, <<0>>, <<1, 0>>} :
       Finish("fragments_needed", [missing_fragment_indexes |-> missing],
              Return(missing))
  /\ encoded' = None
  /\ UNCHANGED self

Striping_get_metadata ==
  /\ pc = "idle"
  /\ self.cls = "striping"
  /\ \E fragment \in StripeFrags :
       Finish("get_metadata", [fragment |-> fragment], Return(<<>>))
  /\ encoded' = None
  /\ UNCHANGED self

Striping_verify_stripe_metadata ==
  /\ pc = "idle"
  /\ self.cls = "striping"
  /\ \E fragment_metadata_list \in {<<>>, <<<<>>>>} :
       Finish("verify_stripe_metadata",
              [fragment_metadata_list |-> fragment_metadata_list], Return(TRUE))
  /\ encoded' = None
  /\ UNCHANGED self

---------------------------------------------------------------------------
(* ECNullDriver: every method is `pass`.                                   *)

Null_init ==
  /\ pc = "idle"
  /\ \E k \in 1..MaxK, m \in {0, 1} :
       /\ self' = [cls |-> "null", k |-> k, m |-> m]
       /\ Finish("__init__", [cls |-> "null", k |-> k, m |-> m], Return(None))
  /\ encoded' = None

Null_encode ==
  /\ pc = "idle"
  /\ self.cls = "null"
  /\ \E bytes \in {<<>>, <<"a", "b">>} :
       Finish("encode", [bytes |-> bytes], Return(None))
  /\ encoded' = None
  /\ UNCHANGED self

Null_decode ==
  /\ pc = "idle"
  /\ self.cls = "null"
  /\ \E fragment_payloads \in {<<>>, <<<<"a">>>>} :
       Finish("decode", [fragment_payloads |-> fragment_payloads], Return(None))
  /\ encoded' = None
  /\ UNCHANGED self

Null_reconstruct ==
  /\ pc = "idle"
  /\ self.cls = "null"
  /\ \E available \in {<<>>, <<<<"a">>>>}, missing \in {<<>>, <<1, 0>>} :
       Finish("reconstruct",
              [fragment_payloads |-> available, indexes_to_reconstruct |-> missing],
              Return(None))
  /\ encoded' = None
  /\ UNCHANGED self

Null_fragments_needed ==
  /\ pc = "idle"
  /\ self.cls = "null"
  /\ \E missing \in {<<>>, <<1, 0>>} :
       Finish("fragments_needed", [missing_fragment_indexes |-> missing],
              Return(None))
  /\ encoded' = None
  /\ UNCHANGED self

Null_get_metadata ==
  /\ pc = "idle"
  /\ self.cls = "null"
  /\ \E fragment \in StripeFrags :
       Finish("get_metadata", [fragment |-> fragment], Return(None))
  /\ encoded' = None
  /\ UNCHANGED self

Null_verify_stripe_metadata ==
  /\ pc = "idle"
  /\ self.cls = "null"
  /\ \E fragment_metadata_list \in {<<>>, <<<<>>>>} :
       Finish("verify_stripe_metadata",
              [fragment_metadata_list |-> fragment_metadata_list], Return(None))
  /\ encoded' = None
  /\ UNCHANGED self

---------------------------------------------------------------------------
(* The native engine pyeclib_c, a black box: each call answers with a      *)
(* value of the call's result type or faults.                              *)

F1 == <<"a">>
F2 == <<"a", "b">>

\* Fragment lists a caller hands to the coded decode()/reconstruct().
CodedPayloads == {<<F1, F2>>, <<F2>>}

\* get_fragment_partition: (data_frags, parity_frags, missing_idxs).
EnginePartitions ==
  { [data_frags |-> <<F2>>, parity_frags |-> <<F1>>, missing_idxs |-> <<0>>],
    [data_frags |-> <<F1, F1>>, parity_frags |-> <<>>, missing_idxs |-> <<1>>],
    [data_frags |-> <<>>, parity_frags |-> <<F1>>, missing_idxs |-> <<0, 1>>] }

\* fragments_to_string: a string, or None when the fragments need repair.
EngineStrings == {None, <<"a", "b">>, <<"b">>}

\* decode, encode: a list of fragments.
EngineFragmentLists == {<<F1, F1>>, <<F2>>}

\* reconstruct: one fragment.
EngineFragments == {F1, F2}

\* get_required_fragments: a list of indexes.
EngineIndexLists == {<<>>, <<0, 1>>}

EngineFault == "EngineError"

\* An answer is a value of S, or a fault (whose val is not read).
Answers(S) ==
  {[ok |-> TRUE, val |-> v] : v \in S} \cup {[ok |-> FALSE, val |-> CHOOSE v \in S : TRUE]}

Call(fn, a, answer) == [fn |-> fn, args |-> a, ret |-> answer]

---------------------------------------------------------------------------
(* ECPyECLibDriver                                                         *)

ec_rs_vand == "rs_vand"
ec_rs_cauchy_orig == "rs_cauchy_orig"
ec_flat_xor_3 == "flat_xor_3"
ec_flat_xor_4 == "flat_xor_4"
ec_types == {ec_rs_vand, ec_rs_cauchy_orig, ec_flat_xor_3, ec_flat_xor_4}
\* ["12_6_4", "10_5_3"]: k_m_hd.  __init__ never reads it.
ec_valid_xor_params == {<<12, 6, 4>>, <<10, 5, 3>>}
ec_rs_vand_best_w == 16
ec_default_w == 32
ec_rs_cauchy_best_w == 4

\* (k, m) a caller constructs the coded driver with: the two pairs of
\* ec_valid_xor_params and one pair outside it.
KMPairs == {<<8, 4>>, <<10, 5>>, <<12, 6>>}
TypeNames == ec_types \cup {"bogus"}

\* self.w of __init__ (the final else is unreachable: type is in ec_types).
WidthOf(type) ==
  IF type = ec_rs_vand THEN ec_rs_vand_best_w
  ELSE IF type = ec_rs_cauchy_orig THEN ec_rs_cauchy_best_w
  ELSE ec_default_w

\* self.hd of __init__.
DistanceOf(type, m) ==
  IF type = ec_rs_vand THEN m + 1
  ELSE IF type = ec_rs_cauchy_orig THEN m + 1
  ELSE IF type = ec_flat_xor_3 THEN 3
  ELSE 4

\* `if type in self.ec_types`: the only validation __init__ performs.
TypeAccepted(k, m, type) == type \in ec_types

\* ECPyECLibDriver.__init__: the type check, then pyeclib_c.init.
Coded_init ==
  /\ pc = "idle"
  /\ \E km \in KMPairs, type \in TypeNames, answer \in Answers({1}) :
       LET k == km[1]
           m == km[2]
           a == [cls |-> "coded", k |-> k, m |-> m, type |-> type]
           call == Call("init", <<k, m, WidthOf(type), type>>, answer)
       IN /\ op' = "__init__"
          /\ args' = a
          /\ entry' = a
          /\ locals' = NoLocals
          /\ pc' = "done"
          /\ IF ~TypeAccepted(k, m, type)
               THEN /\ self' = NoDriver
                    /\ engine' = <<>>
                    /\ outcome' = Raise_ECDriverError
               ELSE /\ engine' = <<call>>
                    /\ IF answer.ok
                         THEN /\ self' = [cls |-> "coded", k |-> k, m |-> m,
                                          type |-> type, w |-> WidthOf(type),
                                          hd |-> DistanceOf(type, m),
                                          handle |-> answer.val]
                              /\ outcome' = Return(None)
                         ELSE /\ self' = NoDriver
                              /\ outcome' = Raise(EngineFault)
  /\ encoded' = None

\* ECPyECLibDriver.encode: pyeclib_c.encode, unguarded.
Coded_encode ==
  /\ pc = "idle"
  /\ self.cls = "coded"
  /\ \E bytes \in {<<>>, <<"a", "b">>}, answer \in Answers(EngineFragmentLists) :
       End("encode", [bytes |-> bytes],
           <<Call("encode", <<self.handle, bytes>>, answer)>>,
           IF answer.ok THEN Return(answer.val) ELSE Raise(EngineFault))
  /\ encoded' = None
  /\ UNCHANGED self

\* ECPyECLibDriver.fragments_needed: pyeclib_c.get_required_fragments.
Coded_fragments_needed ==
  /\ pc = "idle"
  /\ self.cls = "coded"
  /\ \E missing \in {<<>>, <<1, 0>>}, answer \in Answers(EngineIndexLists) :
       End("fragments_needed", [missing_fragment_indexes |-> missing],
           <<Call("get_required_fragments", <<missing>>, answer)>>,
           IF answer.ok THEN Return(answer.val) ELSE Raise(EngineFault))
  /\ encoded' = None
  /\ UNCHANGED self

Coded_get_metadata ==
  /\ pc = "idle"
  /\ self.cls = "coded"
  /\ \E fragment \in EngineFragments :
       Finish("get_metadata", [fragment |-> fragment], Return(None))
  /\ encoded' = None
  /\ UNCHANGED self

Coded_verify_stripe_metadata ==
  /\ pc = "idle"
  /\ self.cls = "coded"
  /\ \E fragment_metadata_list \in {<<>>, <<<<>>>>} :
       Finish("verify_stripe_metadata",
              [fragment_metadata_list |-> fragment_metadata_list], Return(None))
  /\ encoded' = None
  /\ UNCHANGED self

---------------------------------------------------------------------------
(* ECPyECLibDriver.decode, one step per engine call.                       *)

\* A faulty variant of the length below: len(data_frags), the number of data
\* fragments, for len(data_frags[0]).
FragmentCount(data_frags) == Len(data_frags)

\* len(data_frags[0]), the frag_len argument of the engine's decode and
\* reconstruct.
FragmentLength(data_frags) == Len(data_frags[1])

\* A step that ends the running method.
Leave(res) ==
  /\ outcome' = res
  /\ locals' = NoLocals
  /\ pc' = "done"

\* try: ret_string = pyeclib_c.fragments_to_string(handle, fragment_payloads)
\* except: raise ECDriverError(...)
\* and the `if ret_string is None` that follows.
Coded_decode_direct ==
  /\ pc = "idle"
  /\ self.cls = "coded"
  /\ \E fragment_payloads \in CodedPayloads, answer \in Answers(EngineStrings) :
       /\ op' = "decode"
       /\ args' = [fragment_payloads |-> fragment_payloads]
       /\ entry' = [fragment_payloads |-> fragment_payloads]
       /\ engine' = <<Call("fragments_to_string",
                           <<self.handle, fragment_payloads>>, answer)>>
       /\ IF ~answer.ok THEN Leave(Raise_ECDriverError)
          ELSE IF answer.val # None THEN Leave(Return(answer.val))
          ELSE /\ outcome' = NoOutcome
               /\ locals' = [frame |-> "decode"]
               /\ pc' = "decode_partition"
  /\ encoded' = None
  /\ UNCHANGED self

\* (data_frags, parity_frags, missing_idxs) =
\*     pyeclib_c.get_fragment_partition(handle, fragment_payloads)
Coded_decode_partition ==
  /\ pc = "decode_partition"
  /\ \E answer \in Answers(EnginePartitions) :
       /\ engine' = Append(engine, Call("get_fragment_partition",
                             <<self.handle, args.fragment_payloads>>, answer))
       /\ IF ~answer.ok THEN Leave(Raise(EngineFault))
          ELSE /\ locals' = [frame |-> "decode",
                             data_frags |-> answer.val.data_frags,
                             parity_frags |-> answer.val.parity_frags,
                             missing_idxs |-> answer.val.missing_idxs]
               /\ pc' = "decode_repair"
               /\ UNCHANGED outcome
  /\ UNCHANGED <<self, op, args, entry, encoded>>

\* decoded_fragments = pyeclib_c.decode(handle, data_frags, parity_frags,
\*                                      missing_idxs, len(data_frags[0]))
\* data_frags[0] of an empty list raises IndexError before the call is made.
Coded_decode_repair ==
  /\ pc = "decode_repair"
  /\ IF locals.data_frags = <<>>
       THEN /\ Leave(Raise("IndexError"))
            /\ UNCHANGED engine
       ELSE \E answer \in Answers(EngineFragmentLists) :
              /\ engine' = Append(engine, Call("decode",
                             <<self.handle, locals.data_frags, locals.parity_frags,
                               locals.missing_idxs,
                               FragmentLength(locals.data_frags)>>, answer))
              /\ IF ~answer.ok THEN Leave(Raise(EngineFault))
                 ELSE /\ locals' = [frame |-> "decode",
                                    decoded_fragments |-> answer.val]
                      /\ pc' = "decode_assemble"
                      /\ UNCHANGED outcome
  /\ UNCHANGED <<self, op, args, entry, encoded>>

\* ret_string = pyeclib_c.fragments_to_string(handle, decoded_fragments)
\* return ret_string
Coded_decode_assemble ==
  /\ pc = "decode_assemble"
  /\ \E answer \in Answers(EngineStrings) :
       /\ engine' = Append(engine, Call("fragments_to_string",
                             <<self.handle, locals.decoded_fragments>>, answer))
       /\ Leave(IF answer.ok THEN Return(answer.val) ELSE Raise(EngineFault))
  /\ UNCHANGED <<self, op, args, entry, encoded>>

---------------------------------------------------------------------------
(* ECPyECLibDriver.reconstruct, one step per engine call.                  *)

\* Indexes a caller asks for: the first and last data index, the first and
\* last parity index.
TargetIndexes(k, m) == {0, k - 1, k, k + m - 1}

\* A faulty variant of the append below: reconstructed_bytes.insert(0, ...).
PrependReconstructed(reconstructed_bytes, reconstructed) ==
  <<reconstructed>> \o reconstructed_bytes

\* reconstructed_bytes.append(reconstructed)
AppendReconstructed(reconstructed_bytes, reconstructed) ==
  Append(reconstructed_bytes, reconstructed)

\* reconstructed_bytes = []; indexes_to_reconstruct.sort();
\* _indexes_to_reconstruct = indexes_to_reconstruct[:]
\* The sort is in place: it reorders the caller's list.
Coded_reconstruct_begin ==
  /\ pc = "idle"
  /\ self.cls = "coded"
  /\ \E fragment_payloads \in CodedPayloads,
        indexes_to_reconstruct \in SeqsUpTo(TargetIndexes(self.k, self.m), MaxTargets) :
       /\ entry' = [fragment_payloads |-> fragment_payloads,
                    indexes_to_reconstruct |-> indexes_to_reconstruct]
       /\ args' = [fragment_payloads |-> fragment_payloads,
                   indexes_to_reconstruct |-> ListSort(indexes_to_reconstruct)]
       /\ locals' = [frame |-> "reconstruct",
                     reconstructed_bytes |-> <<>>,
                     _indexes_to_reconstruct |-> ListSort(indexes_to_reconstruct)]
  /\ op' = "reconstruct"
  /\ engine' = <<>>
  /\ outcome' = NoOutcome
  /\ pc' = "reconstruct_loop"
  /\ encoded' = None
  /\ UNCHANGED self

\* while len(_indexes_to_reconstruct) > 0:
\*   index = _indexes_to_reconstruct.pop(0)
\*   (data_frags, parity_frags, missing_idxs) =
\*       pyeclib_c.get_fragment_partition(handle, fragment_payloads)
Coded_reconstruct_partition ==
  /\ pc = "reconstruct_loop"
  /\ Len(locals._indexes_to_reconstruct) > 0
  /\ \E answer \in Answers(EnginePartitions) :
       /\ engine' = Append(engine, Call("get_fragment_partition",
                             <<self.handle, args.fragment_payloads>>, answer))
       /\ IF ~answer.ok THEN Leave(Raise(EngineFault))
          ELSE /\ locals' = [frame |-> "reconstruct",
                             reconstructed_bytes |-> locals.reconstructed_bytes,
                             _indexes_to_reconstruct |->
                                 Tail(locals._indexes_to_reconstruct),
                             index |-> Head(locals._indexes_to_reconstruct),
                             data_frags |-> answer.val.data_frags,
                             parity_frags |-> answer.val.parity_frags,
                             missing_idxs |-> answer.val.missing_idxs]
               /\ pc' = "reconstruct_call"
               /\ UNCHANGED outcome
  /\ UNCHANGED <<self, op, args, entry, encoded>>

\*   reconstructed = pyeclib_c.reconstruct(handle, data_frags, parity_frags,
\*                       missing_idxs, index, len(data_frags[0]))
\*   reconstructed_bytes.append(reconstructed)
Coded_reconstruct_call ==
  /\ pc = "reconstruct_call"
  /\ IF locals.data_frags = <<>>
       THEN /\ Leave(Raise("IndexError"))
            /\ UNCHANGED engine
       ELSE \E answer \in Answers(EngineFragments) :
              /\ engine' = Append(engine, Call("reconstruct",
                             <<self.handle, locals.data_frags, locals.parity_frags,
                               locals.missing_idxs, locals.index,
                               FragmentLength(locals.data_frags)>>, answer))
              /\ IF ~answer.ok THEN Leave(Raise(EngineFault))
                 ELSE /\ locals' = [frame |-> "reconstruct",
                                    reconstructed_bytes |->
                                        AppendReconstructed(locals.reconstructed_bytes,
                                                            answer.val),
                                    _indexes_to_reconstruct |->
                                        locals._indexes_to_reconstruct]
                      /\ pc' = "reconstruct_loop"
                      /\ UNCHANGED outcome
  /\ UNCHANGED <<self, op, args, entry, encoded>>

\* The loop condition fails: return reconstructed_bytes
Coded_reconstruct_return ==
  /\ pc = "reconstruct_loop"
  /\ Len(locals._indexes_to_reconstruct) = 0
  /\ Leave(Return(locals.reconstructed_bytes))
  /\ UNCHANGED <<self, op, args, entry, engine, encoded>>

---------------------------------------------------------------------------
(* The caller.                                                             *)

\* The caller takes the result (or the error) and is free to call again.
Caller_continue ==
  /\ pc = "done"
  /\ pc' = "idle"
  /\ op' = "none"
  /\ args' = [none |-> None]
  /\ entry' = [none |-> None]
  /\ engine' = <<>>
  /\ outcome' = NoOutcome
  /\ encoded' = None
  /\ UNCHANGED <<self, locals>>

Init ==
  /\ self = NoDriver
  /\ pc = "idle"
  /\ op = "none"
  /\ args = [none |-> None]
  /\ entry = [none |-> None]
  /\ locals = NoLocals
  /\ engine = <<>>
  /\ outcome = NoOutcome
  /\ encoded = None

Next ==
  \/ Striping_init
  \/ Striping_encode
  \/ Striping_decode
  \/ Striping_decode_encoded
  \/ Striping_reconstruct
  \/ Striping_fragments_needed
  \/ Striping_get_metadata
  \/ Striping_verify_stripe_metadata
  \/ Null_init
  \/ Null_encode
  \/ Null_decode
  \/ Null_reconstruct
  \/ Null_fragments_needed
  \/ Null_get_metadata
  \/ Null_verify_stripe_metadata
  \/ Coded_init
  \/ Coded_encode
  \/ Coded_fragments_needed
  \/ Coded_get_metadata
  \/ Coded_verify_stripe_metadata
  \/ Coded_decode_direct
  \/ Coded_decode_partition
  \/ Coded_decode_repair
  \/ Coded_decode_assemble
  \/ Coded_reconstruct_begin
  \/ Coded_reconstruct_partition
  \/ Coded_reconstruct_call
  \/ Coded_reconstruct_return
  \/ Caller_continue

Spec == Init /\ [][Next]_vars

---------------------------------------------------------------------------
(* Vocabulary of the properties.                                           *)

Done == pc = "done"

\* The driver's own typed error, as the docstrings announce it
\* (":raises: ECDriverError").
DriverError == "ECDriverError"

Range(s) == {s[i] : i \in DOMAIN s}

\* The i-th smallest element of a non-empty sequence of integers, 1 <= i <= Len(s).
KthSmallest(s, i) ==
  CHOOSE v \in Range(s) :
    /\ Cardinality({p \in DOMAIN s : s[p] < v}) < i
    /\ i <= Cardinality({p \in DOMAIN s : s[p] <= v})

InCodedReconstruct == self.cls = "coded" /\ op = "reconstruct"
InCodedDecode == self.cls = "coded" /\ op = "decode"
StripingDone(name) == Done /\ self.cls = "striping" /\ op = name

\* Positions in the log of the engine's single-target reconstruct calls.
ReconstructCalls == {i \in DOMAIN engine : engine[i].fn = "reconstruct"}

\* The target index such a call was given.
TargetOf(i) == engine[i].args[5]

---------------------------------------------------------------------------
(* Properties.                                                             *)

\* C1: striping round trip.  encode(b) returns fragments whose concatenation
\* in index order is b, and decode(encode(b)) returns exactly b, for every k
\* and every buffer b.
C1_StripingRoundTrip ==
  /\ StripingDone("encode") =>
       /\ outcome.kind = "return"
       /\ Concat(outcome.val) = args.bytes
  /\ (StripingDone("decode") /\ encoded # None) =>
       /\ outcome.kind = "return"
       /\ outcome.val = encoded

\* C2: striping exactness.  encode of a buffer of length L returns exactly k
\* fragments whose lengths sum to L: ceil(L/k) for each of the first k-1, and
\* the remaining L - (k-1)*ceil(L/k) for the last.
C2_StripingExactness ==
  StripingDone("encode") =>
    LET L == Len(args.bytes)
        k == self.k
    IN /\ outcome.kind = "return"
       /\ Len(outcome.val) = k
       /\ \A i \in 1..(k - 1) : Len(outcome.val[i]) = Ceil(L, k)
       /\ Len(outcome.val[k]) = L - (k - 1) * Ceil(L, k)
       /\ Len(Concat(outcome.val)) = L

\* C3: reconstruction ordering.  Whatever the order of the caller's
\* target_indexes, the engine's single-target reconstruct calls are issued in
\* ascending target-index order; a parity index (>= k) is passed only after
\* every requested data index (< k) has been passed; and a call that returns
\* has passed each requested index as often as it was requested.
C3_ReconstructAscending ==
  InCodedReconstruct =>
    LET wanted == entry.indexes_to_reconstruct
    IN /\ \A i, j \in ReconstructCalls : i < j => TargetOf(i) <= TargetOf(j)
       /\ \A j \in ReconstructCalls :
            TargetOf(j) >= self.k =>
              \A p \in DOMAIN wanted :
                wanted[p] < self.k =>
                  Cardinality({i \in ReconstructCalls : i < j /\ TargetOf(i) = wanted[p]})
                    = Cardinality({q \in DOMAIN wanted : wanted[q] = wanted[p]})
       /\ (Done /\ outcome.kind = "return") =>
            \A v \in Range(wanted) \cup {TargetOf(i) : i \in ReconstructCalls} :
              Cardinality({i \in ReconstructCalls : TargetOf(i) = v})
                = Cardinality({q \in DOMAIN wanted : wanted[q] = v})

\* C3 witness: a returned reconstruct whose caller listed a parity index
\* before a data index.
C3_Witness ==
  /\ InCodedReconstruct
  /\ Done
  /\ outcome.kind = "return"
  /\ Len(entry.indexes_to_reconstruct) = 2
  /\ entry.indexes_to_reconstruct[1] >= self.k
  /\ entry.indexes_to_reconstruct[2] < self.k
  /\ Cardinality(ReconstructCalls) = 2

\* C4: reconstruction call sequence.  The engine calls of reconstruct are
\* (get_fragment_partition, reconstruct) pairs, strictly alternating; every
\* partition call receives the caller's fragment list as supplied; every
\* reconstruct call receives the partition just obtained, the next smallest
\* target and the length of the first data fragment; and a call that returns
\* for n targets has made exactly n pairs and returns n fragments, the i-th
\* being the engine's result for the i-th smallest target.
C4_ReconstructCallSequence ==
  InCodedReconstruct =>
    LET wanted == entry.indexes_to_reconstruct
        n == Len(wanted)
    IN /\ Len(engine) <= 2 * n
       /\ \A i \in DOMAIN engine :
            IF i % 2 = 1
              THEN /\ engine[i].fn = "get_fragment_partition"
                   /\ engine[i].args = <<self.handle, entry.fragment_payloads>>
                   /\ i > 1 => engine[i - 1].ret.ok
              ELSE /\ engine[i].fn = "reconstruct"
                   /\ engine[i - 1].ret.ok
                   /\ LET part == engine[i - 1].ret.val
                      IN engine[i].args =
                           <<self.handle, part.data_frags, part.parity_frags,
                             part.missing_idxs, KthSmallest(wanted, i \div 2),
                             Len(part.data_frags[1])>>
       /\ (Done /\ outcome.kind = "return") =>
            /\ Len(engine) = 2 * n
            /\ Len(outcome.val) = n
            /\ \A i \in 1..n :
                 /\ engine[2 * i].ret.ok
                 /\ outcome.val[i] = engine[2 * i].ret.val
                 /\ TargetOf(2 * i) = KthSmallest(wanted, i)

\* C4 witness: a returned reconstruct of two targets given out of order, for
\* which the engine answered two different partitions and two different
\* fragments.
C4_Witness ==
  /\ InCodedReconstruct
  /\ Done
  /\ outcome.kind = "return"
  /\ Len(entry.indexes_to_reconstruct) = 2
  /\ entry.indexes_to_reconstruct[1] > entry.indexes_to_reconstruct[2]
  /\ Len(engine) = 4
  /\ engine[1].ret.val # engine[3].ret.val
  /\ outcome.val[1] # outcome.val[2]

\* C5: striping decode count check.  decode fails with the driver's typed
\* error whenever the number of payloads differs from k, and with exactly k
\* payloads returns their concatenation in the given order.
C5_StripingDecodeCount ==
  StripingDone("decode") =>
    IF Len(entry.fragment_payloads) # self.k
      THEN outcome.kind = "raise" /\ outcome.val = DriverError
      ELSE outcome.kind = "return" /\ outcome.val = Concat(entry.fragment_payloads)

\* The (k, m) pairs of ec_valid_xor_params.
ValidXorPairs == {<<p[1], p[2]>> : p \in ec_valid_xor_params}

\* C6: XOR allow-list validation.  Constructing the coded driver with a
\* flat-XOR scheme and a (k, m) outside the allow-list fails with the driver's
\* typed error: no instance exists and the engine's init was not called.
C6_XorAllowList ==
  (/\ Done
   /\ op = "__init__"
   /\ entry.cls = "coded"
   /\ entry.type \in {ec_flat_xor_3, ec_flat_xor_4}
   /\ <<entry.k, entry.m>> \notin ValidXorPairs) =>
    /\ outcome.kind = "raise"
    /\ outcome.val = DriverError
    /\ self = NoDriver
    /\ engine = <<>>

\* C7: validation at construction.  ECStripingDriver(k, m) with m # 0 and
\* ECPyECLibDriver(k, m, type) with an unknown type fail with the driver's
\* typed error; in the coded case the engine's init is never called.
C7_ConstructionValidation ==
  (Done /\ op = "__init__") =>
    /\ (entry.cls = "striping" /\ entry.m # 0) =>
         /\ outcome.kind = "raise"
         /\ outcome.val = DriverError
         /\ self = NoDriver
    /\ (entry.cls = "coded" /\ entry.type \notin ec_types) =>
         /\ outcome.kind = "raise"
         /\ outcome.val = DriverError
         /\ self = NoDriver
         /\ engine = <<>>

\* C8: decode error wrapping.  Whatever step of the coded decode faults, the
\* caller observes the driver's typed error, never a raw engine or runtime
\* fault.
C8_DecodeErrorWrapping ==
  (Done /\ InCodedDecode /\ outcome.kind = "raise") => outcome.val = DriverError

\* C9: all-or-nothing on failure.  When encode, decode or reconstruct fails,
\* every argument object of the caller, the order of target_indexes included,
\* is as it was before the call.
C9_AllOrNothing ==
  (/\ Done
   /\ op \in {"encode", "decode", "reconstruct"}
   /\ outcome.kind = "raise") => args = entry

\* C10: the two-step protocol of the coded decode.  The first engine call is
\* always the direct reassembly of the caller's fragments; if it gives a
\* string, that string is returned and nothing else is called; only if it
\* gives None come the partition of the caller's fragments, then one repair
\* with that partition's data fragments, parity fragments, missing indexes and
\* the length of its first data fragment, then the reassembly of the repaired
\* fragments, whose result is returned.
C10_DecodeProtocol ==
  InCodedDecode =>
    /\ Len(engine) \in 1..4
    /\ engine[1].fn = "fragments_to_string"
    /\ engine[1].args = <<self.handle, entry.fragment_payloads>>
    /\ (engine[1].ret.ok /\ engine[1].ret.val # None) =>
         /\ Len(engine) = 1
         /\ Done
         /\ outcome.kind = "return"
         /\ outcome.val = engine[1].ret.val
    /\ Len(engine) >= 2 =>
         /\ engine[1].ret.ok
         /\ engine[1].ret.val = None
         /\ engine[2].fn = "get_fragment_partition"
         /\ engine[2].args = <<self.handle, entry.fragment_payloads>>
    /\ Len(engine) >= 3 =>
         /\ engine[2].ret.ok
         /\ engine[3].fn = "decode"
         /\ LET part == engine[2].ret.val
            IN engine[3].args =
                 <<self.handle, part.data_frags, part.parity_frags,
                   part.missing_idxs, Len(part.data_frags[1])>>
    /\ Len(engine) = 4 =>
         /\ engine[3].ret.ok
         /\ engine[4].fn = "fragments_to_string"
         /\ engine[4].args = <<self.handle, engine[3].ret.val>>
         /\ Done
         /\ engine[4].ret.ok => (outcome.kind = "return" /\ outcome.val = engine[4].ret.val)
    /\ (Done /\ outcome.kind = "return") => Len(engine) \in {1, 4}

\* C10 witness: a decode that went through partition, repair and reassembly
\* and returned the reassembled string.
C10_Witness ==
  /\ InCodedDecode
  /\ Done
  /\ outcome.kind = "return"
  /\ Len(engine) = 4
  /\ outcome.val # None

====
